---- MODULE Spec2Model ----
(***************************************************************************)
(* A model of exchangelib's QuerySet (exchangelib/queryset.py): a deferred, *)
(* chainable query over a folder of items, with a result cache that is      *)
(* filled by the first complete iteration.                                  *)
(*                                                                          *)
(* The heap holds the QuerySet objects a client has created (qs) and the    *)
(* tuples of FieldOrder objects they point to (ordHeap): order_fields is a  *)
(* reference, so that copy()'s deepcopy and reverse()'s in-place flip are    *)
(* what they are in Python.  gens holds the suspended __iter__ generators.  *)
(* The folder is the remote store; last records the most recent call, what  *)
(* it returned or raised, and the remote calls it made.                     *)
(***************************************************************************)
EXTENDS Integers, Sequences, FiniteSets, TLC

VARIABLES qs, ordHeap, gens, store, last

vars == <<qs, ordHeap, gens, store, last>>

-----------------------------------------------------------------------------
(* Bounds of the model *)

\* Number of items the folder holds at the start
NumItems == 2
\* Number of QuerySet objects the client may hold
MaxQS == 2
\* Number of QuerySet objects a client that only builds querysets may hold
MaxChain == 3
\* Number of iterators the client may hold
MaxGens == 1
\* Number of iterators a client that iterates one object concurrently may hold
MaxIters == 2

-----------------------------------------------------------------------------
(* Python's None and optional values: None is <<>>, a value x is <<x>> *)

None == <<>>
Some(x) == <<x>>
IsNone(o) == o = <<>>
The(o) == o[1]

\* The value of an item field that was not requested from the server
Unset == 0

\* QuerySet.RETURN_TYPES
VALUES == "values"
VALUES_LIST == "values_list"
FLAT == "flat"
NONE == "none"
RETURN_TYPES == {VALUES, VALUES_LIST, FLAT, NONE}

-----------------------------------------------------------------------------
(* The folder collaborator: items, fields, restrictions *)

ItemIds == 1..NumItems

\* The items of the folder: item i has item_id i, changekey 10+i and the
\* field values below ((a=1,b=2), (a=1,b=1), (a=2,b=1), ...).
FieldValue(i, f) ==
    CASE f = "item_id" -> i
      [] f = "changekey" -> 10 + i
      [] f = "a" -> (i + 1) \div 2
      [] f = "b" -> IF i % 3 = 1 THEN 2 ELSE 1
      [] f = "body" -> 20 + i

IdFields == {"item_id", "changekey"}

\* folder.allowed_fields()
allowed_fields == {"a", "b", "body"}

\* folder.complex_fields()
complex_fields == {"body"}

\* The field names FieldPath.from_string resolves
KnownFields == IdFields \cup allowed_fields

\* A restriction Q is a conjunction of literals; Q() is the empty conjunction.
\* A literal is a field lookup (a=1) or its negation.  kwargs is a function
\* from field names to values; NoKwargs is the empty kwargs.
NoKwargs == [f \in {} |-> 0]

\* Q(**kwargs): the conjunction of the given lookups
Q(kwargs) ==
    {[field |-> k, value |-> kwargs[k], neg |-> FALSE] : k \in DOMAIN kwargs}

\* ~Q(**kwargs), for one lookup
NotQ(kwargs) ==
    {[field |-> k, value |-> kwargs[k], neg |-> TRUE] : k \in DOMAIN kwargs}

\* q1 & q2
QAnd(q1, q2) == q1 \cup q2

\* Whether item i satisfies restriction q
Matches(q, i) == \A l \in q : (FieldValue(i, l.field) = l.value) # l.neg

-----------------------------------------------------------------------------
(* Sequences *)

\* The elements of a sequence
Range(s) == {s[n] : n \in DOMAIN s}

\* The first n elements of s (all of s when n is larger)
Take(s, n) == SubSeq(s, 1, IF n < Len(s) THEN n ELSE Len(s))

\* The indices of a set of integers in increasing order
RECURSIVE SetToSeq(_)
SetToSeq(S) ==
    IF S = {} THEN <<>>
    ELSE LET m == CHOOSE x \in S : \A y \in S : x <= y
         IN  <<m>> \o SetToSeq(S \ {m})

\* Python's sorted(xs, key=..., reverse=...), given the keys of the elements:
\* a stable sort, which keeps elements with equal keys in their input order
\* also when reverse is set.
sorted(xs, keys, reverse) ==
    LET Before(m, n) ==
            \/ IF reverse THEN keys[m] > keys[n] ELSE keys[m] < keys[n]
            \/ keys[m] = keys[n] /\ m < n
        Rank(n) == 1 + Cardinality({m \in DOMAIN xs : Before(m, n)})
    IN  [r \in DOMAIN xs |-> xs[CHOOSE n \in DOMAIN xs : Rank(n) = r]]

-----------------------------------------------------------------------------
(* The remote calls of the folder collaborator *)

\* A full item as the server returns it: item_id and changekey always, the
\* requested fields, and every other field unset.
ServerItem(i, fields) ==
    [f \in KnownFields |->
        IF f \in IdFields \cup fields THEN FieldValue(i, f) ELSE Unset]

\* Item(**kwargs): an item object with only the given fields set
Item(kwargs) ==
    [f \in KnownFields |-> IF f \in DOMAIN kwargs THEN kwargs[f] ELSE Unset]

\* The server's sort on the given FieldOrder tuple (most significant first)
RECURSIVE ServerSort(_, _)
ServerSort(ids, order) ==
    IF order = <<>> THEN ids
    ELSE LET rest == ServerSort(ids, Tail(order))
             f == Head(order)
         IN  sorted(rest,
                    [n \in DOMAIN rest |-> FieldValue(rest[n], f.field_path)],
                    f.reverse)

\* folder.find_items(q, additional_fields, order_fields, calendar_view,
\* page_size, max_items) on folder contents st: the matching items in folder
\* order or in the requested order, at most max_items of them, as
\* (item_id, changekey) pairs when no additional fields are requested.
find_items(st, q, kw) ==
    LET ids == SetToSeq({i \in st : Matches(q, i)})
        ordered == IF IsNone(kw.order_fields) THEN ids
                   ELSE ServerSort(ids, The(kw.order_fields))
        cut == IF IsNone(kw.max_items) THEN ordered
               ELSE Take(ordered, The(kw.max_items))
    IN  [n \in DOMAIN cut |->
            IF IsNone(kw.additional_fields)
            THEN <<cut[n], FieldValue(cut[n], "changekey")>>
            ELSE ServerItem(cut[n], The(kw.additional_fields))]

\* folder.fetch(ids, only_fields): the full items of the given pairs that
\* the folder holds, restricted to only_fields (all fields when None)
RECURSIVE fetch(_, _, _)
fetch(st, ids, only_fields) ==
    IF ids = <<>> THEN <<>>
    ELSE LET p == Head(ids)
             fields == IF IsNone(only_fields) THEN allowed_fields
                       ELSE The(only_fields)
             rest == fetch(st, Tail(ids), only_fields)
         IN  IF p[1] \in st /\ p[2] = FieldValue(p[1], "changekey")
             THEN <<ServerItem(p[1], fields)>> \o rest
             ELSE rest

\* The record of a find_items call and of a fetch call
FindCall(q, kw) == [svc |-> "find_items", q |-> q, kw |-> kw]
FetchCall(ids, only_fields) ==
    [svc |-> "fetch", ids |-> ids, only_fields |-> only_fields]
BulkDeleteCall(ids) == [svc |-> "bulk_delete", ids |-> ids]

-----------------------------------------------------------------------------
(* QuerySet objects *)

\* Python truthiness of an optional tuple: None and () are false
Truthy(o) == ~IsNone(o) /\ The(o) # <<>>

\* FieldPath.from_string(arg, folder): the field path of the name, which
\* must be a field of the folder
FieldPath_from_string(arg) ==
    IF arg \in KnownFields
    THEN [exc |-> "", val |-> arg]
    ELSE [exc |-> "ValueError", val |-> arg]

\* FieldOrder.from_string(arg, folder): a name is a sequence of tokens; a
\* leading "-" marks the reverse direction
FieldOrder_from_string(arg) ==
    LET reverse == Head(arg) = "-"
        name == IF reverse THEN Tail(arg) ELSE arg
    IN  IF Len(name) = 1 /\ name[1] \in KnownFields
        THEN [exc |-> "",
              val |-> [field_path |-> name[1], reverse |-> reverse]]
        ELSE [exc |-> "ValueError", val |-> name]

\* QuerySet.__init__(folder)
QuerySet_init ==
    [q |-> Some(Q(NoKwargs)),
     only_fields |-> None,
     order_fields |-> None,
     return_format |-> NONE,
     calendar_view |-> FALSE,
     page_size |-> None,
     max_items |-> None,
     cache |-> None]

\* The FieldOrder tuple an object's order_fields refers to in heap h
OrderFields(h, self) ==
    IF IsNone(self.order_fields) THEN None
    ELSE Some(h[The(self.order_fields)])

\* copy(): a new object with the restriction, projection, ordering, return
\* format and view marker of self.  The ordering is deep-copied into a new
\* cell of the heap; page_size, max_items and the cache are those of a new
\* object.  Gives the new object and the heap after the call.
copy_shallow(h, self) ==
    [obj |-> [QuerySet_init EXCEPT !.q = self.q,
                                   !.only_fields = self.only_fields,
                                   !.order_fields = self.order_fields,
                                   !.return_format = self.return_format,
                                   !.calendar_view = self.calendar_view],
     heap |-> h,
     exc |-> ""]

copy(h, self) ==
    [obj |-> [QuerySet_init EXCEPT !.q = self.q,
                                   !.only_fields = self.only_fields,
                                   !.order_fields =
                                       IF IsNone(self.order_fields) THEN None
                                       ELSE Some(Len(h) + 1),
                                   !.return_format = self.return_format,
                                   !.calendar_view = self.calendar_view],
     heap |-> IF IsNone(self.order_fields) THEN h
              ELSE Append(h, h[The(self.order_fields)]),
     exc |-> ""]

\* A call that raises exc and creates nothing
Raises(h, exc) == [obj |-> QuerySet_init, heap |-> h, exc |-> exc]

-----------------------------------------------------------------------------
(* Methods that support chaining: each gives the new object, the heap after *)
(* the call and the exception raised ("" when none)                         *)

all(h, self) == copy(h, self)

none(h, self) ==
    LET new_qs == copy(h, self)
    IN  [new_qs EXCEPT !.obj.q = None]

filter(h, self, kwargs) ==
    LET new_qs == copy(h, self)
        q == Q(kwargs)
    IN  [new_qs EXCEPT !.obj.q =
            IF IsNone(new_qs.obj.q) THEN Some(q)
            ELSE Some(QAnd(The(new_qs.obj.q), q))]

exclude(h, self, kwargs) ==
    LET new_qs == copy(h, self)
        q == NotQ(kwargs)
    IN  [new_qs EXCEPT !.obj.q =
            IF IsNone(new_qs.obj.q) THEN Some(q)
            ELSE Some(QAnd(The(new_qs.obj.q), q))]

\* tuple(FieldPath.from_string(arg) for arg in args), or the ValueError
FieldPaths(args) ==
    IF \E n \in DOMAIN args : FieldPath_from_string(args[n]).exc # ""
    THEN [exc |-> "ValueError", val |-> <<>>]
    ELSE [exc |-> "",
          val |-> [n \in DOMAIN args |-> FieldPath_from_string(args[n]).val]]

only(h, self, args) ==
    LET only_fields == FieldPaths(args)
        new_qs == copy(h, self)
    IN  IF only_fields.exc # "" THEN Raises(h, only_fields.exc)
        ELSE [new_qs EXCEPT !.obj.only_fields = Some(only_fields.val)]

order_by(h, self, args) ==
    LET bad == \E n \in DOMAIN args : FieldOrder_from_string(args[n]).exc # ""
        order_fields ==
            [n \in DOMAIN args |-> FieldOrder_from_string(args[n]).val]
        new_qs == copy(h, self)
    IN  IF bad THEN Raises(h, "ValueError")
        ELSE [obj |-> [new_qs.obj EXCEPT
                          !.order_fields = Some(Len(new_qs.heap) + 1)],
              heap |-> Append(new_qs.heap, order_fields),
              exc |-> ""]

\* The in-place flip of every FieldOrder of a tuple
Flip(order) ==
    [n \in DOMAIN order |-> [order[n] EXCEPT !.reverse = ~order[n].reverse]]

\* A reverse() that does not require an ordering
reverse_unchecked(h, self) ==
    LET new_qs == copy(h, self)
        ref == The(new_qs.obj.order_fields)
    IN  IF ~Truthy(OrderFields(h, self)) THEN new_qs
        ELSE [new_qs EXCEPT !.heap[ref] = Flip(new_qs.heap[ref])]

reverse(h, self) ==
    LET new_qs == copy(h, self)
        ref == The(new_qs.obj.order_fields)
    IN  IF ~Truthy(OrderFields(h, self)) THEN Raises(h, "ValueError")
        ELSE [new_qs EXCEPT !.heap[ref] = Flip(new_qs.heap[ref])]

values(h, self, args) ==
    LET only_fields == FieldPaths(args)
        new_qs == copy(h, self)
    IN  IF only_fields.exc # "" THEN Raises(h, only_fields.exc)
        ELSE [new_qs EXCEPT !.obj.only_fields = Some(only_fields.val),
                            !.obj.return_format = VALUES]

values_list(h, self, args, flat) ==
    LET only_fields == FieldPaths(args)
        new_qs == copy(h, self)
    IN  IF flat /\ Len(args) # 1 THEN Raises(h, "ValueError")
        ELSE IF only_fields.exc # "" THEN Raises(h, only_fields.exc)
        ELSE [new_qs EXCEPT !.obj.only_fields = Some(only_fields.val),
                            !.obj.return_format =
                                IF flat THEN FLAT ELSE VALUES_LIST]

-----------------------------------------------------------------------------
(* The query planner *)

\* A client-side sort whose passes run from the first ordering field to the
\* last
RECURSIVE ClientSort_forward(_, _)
ClientSort_forward(items, order) ==
    IF order = <<>> THEN items
    ELSE LET f == Head(order)
         IN  ClientSort_forward(
                 sorted(items,
                        [n \in DOMAIN items |-> items[n][f.field_path]],
                        f.reverse),
                 Tail(order))

\* The client-side sort of _query: one stable sort per ordering field, from
\* the last field to the first
RECURSIVE ClientSort(_, _)
ClientSort(items, order) ==
    IF order = <<>> THEN items
    ELSE LET rest == ClientSort(items, Tail(order))
             f == Head(order)
         IN  sorted(rest,
                    [n \in DOMAIN rest |-> rest[n][f.field_path]],
                    f.reverse)

\* clean_item(i): the fields fetched only for sorting are reset
clean_item(i, extra_order_fields) ==
    [f \in DOMAIN i |-> IF f \in extra_order_fields THEN Unset ELSE i[f]]

\* _query() on folder contents st: the remote calls made, the raw result
\* stream and its shape ((item_id, changekey) pairs, or full items)
_query(h, self, st) ==
    LET additional0 ==
            IF IsNone(self.only_fields) THEN allowed_fields
            ELSE {f \in Range(The(self.only_fields)) : f \notin IdFields}
        complex_fields_requested == additional0 \cap complex_fields # {}
        own_order == OrderFields(h, self)
        must_sort_clientside == self.calendar_view /\ Truthy(own_order)
        order_fields == IF self.calendar_view THEN None ELSE own_order
        find_item_kwargs ==
            [additional_fields |-> None,
             order_fields |-> order_fields,
             calendar_view |-> self.calendar_view,
             page_size |-> self.page_size,
             max_items |-> self.max_items]
        extra_order_fields ==
            IF must_sort_clientside
            THEN {f.field_path : f \in Range(The(own_order))} \ additional0
            ELSE {}
        Cleaned(in_order, extra) ==
            IF extra = {} THEN in_order
            ELSE [n \in DOMAIN in_order |-> clean_item(in_order[n], extra)]
        Sorted(items, extra) ==
            IF ~must_sort_clientside THEN items
            ELSE Cleaned(ClientSort(items, The(own_order)), extra)
        Fetched(ids, additional_fields, extra) ==
            [calls |-> <<FindCall(The(self.q), find_item_kwargs),
                         FetchCall(ids, Some(additional_fields))>>,
             shape |-> "items",
             items |-> Sorted(fetch(st, ids, Some(additional_fields)), extra)]
        Found(kwargs, extra) ==
            [calls |-> <<FindCall(The(self.q), kwargs)>>,
             shape |-> IF IsNone(kwargs.additional_fields)
                       THEN "pairs" ELSE "items",
             items |-> Sorted(find_items(st, The(self.q), kwargs), extra)]
        Requested(additional_fields, extra) ==
            IF complex_fields_requested
            THEN Fetched(find_items(st, The(self.q), find_item_kwargs),
                         additional_fields, extra)
            ELSE Found(IF additional_fields # {}
                       THEN [find_item_kwargs EXCEPT
                                !.additional_fields = Some(additional_fields)]
                       ELSE find_item_kwargs,
                       extra)
        Extra(extra) == Requested(additional0 \cup extra, extra)
    IN  Extra(extra_order_fields)

-----------------------------------------------------------------------------
(* The result formatters: the formatted stream, and the exception raised   *)
(* when the stream is consumed ("" when none)                              *)

\* bool(only_field_names - {'item_id', 'changekey'})
has_additional_fields(self) ==
    Range(The(self.only_fields)) \ IdFields # {}

\* The (item_id, changekey) shortcut of the formatters, which gives vals:
\* the stream must hold pairs; unpacking a full item as a pair raises
\* TypeError
FromPairs(stream, vals) ==
    IF stream.shape = "pairs" \/ stream.items = <<>>
    THEN [exc |-> "", vals |-> vals]
    ELSE [exc |-> "TypeError", vals |-> <<>>]

\* The loop of the formatters over full items, which gives vals: a pair has
\* no fields, reading one raises AttributeError
FromItems(stream, vals) ==
    IF stream.shape = "items" \/ stream.items = <<>>
    THEN [exc |-> "", vals |-> vals]
    ELSE [exc |-> "AttributeError", vals |-> <<>>]

_as_items(self, stream) ==
    LET only_field_names == Range(The(self.only_fields))
        iterable == stream.items
    IN  IF Truthy(self.only_fields) /\ ~has_additional_fields(self)
        THEN IF "changekey" \notin only_field_names
             THEN FromPairs(stream,
                      [n \in DOMAIN iterable |->
                          Item([f \in {"item_id"} |-> iterable[n][1]])])
             ELSE IF "item_id" \notin only_field_names
             THEN FromPairs(stream,
                      [n \in DOMAIN iterable |->
                          Item([f \in {"changekey"} |-> iterable[n][2]])])
             ELSE FromPairs(stream,
                      [n \in DOMAIN iterable |->
                          Item([f \in IdFields |->
                                   IF f = "item_id" THEN iterable[n][1]
                                   ELSE iterable[n][2]])])
        ELSE [exc |-> "", vals |-> iterable]

_as_values(self, stream) ==
    LET only_field_names == Range(The(self.only_fields))
        iterable == stream.items
    IN  IF ~Truthy(self.only_fields)
        THEN [exc |-> "AssertionError", vals |-> <<>>]
        ELSE IF ~has_additional_fields(self)
        THEN IF "changekey" \notin only_field_names
             THEN FromPairs(stream,
                      [n \in DOMAIN iterable |->
                          [f \in {"item_id"} |-> iterable[n][1]]])
             ELSE IF "item_id" \notin only_field_names
             THEN FromPairs(stream,
                      [n \in DOMAIN iterable |->
                          [f \in {"changekey"} |-> iterable[n][2]]])
             ELSE FromPairs(stream,
                      [n \in DOMAIN iterable |->
                          [f \in IdFields |->
                              IF f = "item_id" THEN iterable[n][1]
                              ELSE iterable[n][2]]])
        ELSE FromItems(stream,
                 [n \in DOMAIN iterable |->
                     [f \in only_field_names |-> iterable[n][f]]])

_as_values_list(self, stream) ==
    LET only_fields == The(self.only_fields)
        only_field_names == Range(only_fields)
        iterable == stream.items
    IN  IF ~Truthy(self.only_fields)
        THEN [exc |-> "AssertionError", vals |-> <<>>]
        ELSE IF ~has_additional_fields(self)
        THEN IF "changekey" \notin only_field_names
             THEN FromPairs(stream,
                      [n \in DOMAIN iterable |-> <<iterable[n][1]>>])
             ELSE IF "item_id" \notin only_field_names
             THEN FromPairs(stream,
                      [n \in DOMAIN iterable |-> <<iterable[n][2]>>])
             ELSE FromPairs(stream,
                      [n \in DOMAIN iterable |->
                          <<iterable[n][1], iterable[n][2]>>])
        ELSE FromItems(stream,
                 [n \in DOMAIN iterable |->
                     [k \in DOMAIN only_fields |->
                         iterable[n][only_fields[k]]]])

_as_flat_values_list(self, stream) ==
    LET flat_field_path == The(self.only_fields)[1]
        iterable == stream.items
    IN  IF ~(Truthy(self.only_fields) /\ Len(The(self.only_fields)) = 1)
        THEN [exc |-> "AssertionError", vals |-> <<>>]
        ELSE IF flat_field_path = "item_id"
        THEN FromPairs(stream, [n \in DOMAIN iterable |-> iterable[n][1]])
        ELSE IF flat_field_path = "changekey"
        THEN FromPairs(stream, [n \in DOMAIN iterable |-> iterable[n][2]])
        ELSE FromItems(stream,
                 [n \in DOMAIN iterable |-> iterable[n][flat_field_path]])

\* The formatter __iter__ selects by return_format
result_formatter(self, stream) ==
    CASE self.return_format = VALUES -> _as_values(self, stream)
      [] self.return_format = VALUES_LIST -> _as_values_list(self, stream)
      [] self.return_format = FLAT -> _as_flat_values_list(self, stream)
      [] self.return_format = NONE -> _as_items(self, stream)

-----------------------------------------------------------------------------
(* The inputs the client passes *)

\* The lookups given to filter() and exclude()
Lookups == {[f \in {"a"} |-> 1]}

\* The field names given to only(), values() and values_list()
FieldArgs == {<<"a">>, <<"zz">>}

\* The field names given to order_by()
OrderArgs == {<< <<"b">> >>, << <<"-", "zz">> >>}

-----------------------------------------------------------------------------
(* The state machine *)

\* What a call returned: a value, recorded in its printed form (the values
\* of different calls are of different types), or the exception it raised
Returned(v) == [exc |-> "", val |-> ToString(v)]
Raised(exc) == [exc |-> exc, val |-> ""]

\* The record of the most recent call: the method, the object it was called
\* on, its argument (with the method, whose arguments are of a type of their
\* own), what it gave and the remote calls it made.  invalidated
\* tells that the call before it was a delete() of the same object that found
\* the cache set and returned normally.
Last(op, s, arg, ret, calls) ==
    [op |-> op, self |-> s, arg |-> <<op, arg>>, ret |-> ret, calls |-> calls,
     invalidated |-> /\ last.op = "delete"
                     /\ last.self = s
                     /\ last.arg[2]
                     /\ last.ret.exc = ""]

\* The record of the construction of the first object
Constructed ==
    [op |-> "QuerySet", self |-> 1, arg |-> <<"QuerySet", <<>> >>,
     ret |-> Returned(1),
     calls |-> <<>>, invalidated |-> FALSE]

Init ==
    /\ qs = <<QuerySet_init>>
    /\ ordHeap = <<>>
    /\ gens = <<>>
    /\ store = ItemIds
    /\ last = Constructed

\* A chaining call that runs the query at once and fills the cache of the
\* new object
Chained_eager(op, s, arg, r) ==
    LET eager == IF r.exc = "" /\ ~IsNone(r.obj.q)
                 THEN _query(r.heap, r.obj, store)
                 ELSE [calls |-> <<>>, shape |-> "pairs", items |-> <<>>]
    IN  /\ IF r.exc = ""
           THEN /\ qs' = Append(qs, [r.obj EXCEPT !.cache = Some(eager.items)])
                /\ ordHeap' = r.heap
                /\ last' = Last(op, s, arg, Returned(Len(qs) + 1),
                                eager.calls)
           ELSE /\ UNCHANGED <<qs, ordHeap>>
                /\ last' = Last(op, s, arg, Raised(r.exc), <<>>)
        /\ UNCHANGED <<gens, store>>

\* A chaining call on object s that gave r: the new object joins the heap,
\* or the exception is raised and nothing is created
Chained(op, s, arg, r) ==
    /\ IF r.exc = ""
       THEN /\ qs' = Append(qs, r.obj)
            /\ ordHeap' = r.heap
            /\ last' = Last(op, s, arg, Returned(Len(qs) + 1), <<>>)
       ELSE /\ UNCHANGED <<qs, ordHeap>>
            /\ last' = Last(op, s, arg, Raised(r.exc), <<>>)
    /\ UNCHANGED <<gens, store>>

Call_all(s) == Chained("all", s, <<>>, all(ordHeap, qs[s]))

Call_none(s) == Chained("none", s, <<>>, none(ordHeap, qs[s]))

Call_filter(s, kwargs) ==
    Chained("filter", s, kwargs, filter(ordHeap, qs[s], kwargs))

Call_exclude(s, kwargs) ==
    Chained("exclude", s, kwargs, exclude(ordHeap, qs[s], kwargs))

Call_only(s, args) == Chained("only", s, args, only(ordHeap, qs[s], args))

Call_order_by(s, args) ==
    Chained("order_by", s, args, order_by(ordHeap, qs[s], args))

Call_reverse(s) == Chained("reverse", s, <<>>, reverse(ordHeap, qs[s]))

Call_values(s, args) ==
    Chained("values", s, args, values(ordHeap, qs[s], args))

Call_values_list(s, args, flat) ==
    Chained("values_list", s, <<args, flat>>,
            values_list(ordHeap, qs[s], args, flat))

\* The client calls a chaining method on one of its objects, while it holds
\* fewer than max objects
Chain(max) ==
    /\ Len(qs) < max
    /\ \E s \in DOMAIN qs :
        \/ Call_all(s)
        \/ Call_none(s)
        \/ \E kwargs \in Lookups : Call_filter(s, kwargs)
        \/ \E kwargs \in Lookups : Call_exclude(s, kwargs)
        \/ \E args \in FieldArgs : Call_only(s, args)
        \/ \E args \in OrderArgs : Call_order_by(s, args)
        \/ Call_reverse(s)
        \/ \E args \in FieldArgs : Call_values(s, args)
        \/ \E args \in FieldArgs, flat \in BOOLEAN :
                Call_values_list(s, args, flat)

-----------------------------------------------------------------------------
(* Iteration.  __iter__ is a generator function; gens holds the iterators  *)
(* the client has not finished: for x in qs is islice(qs.__iter__(), 0,     *)
(* None, 1), and qs[start:stop:step] is an islice that is not started.      *)
(* An iterator has read the first n values of its stream and yields the     *)
(* value at index nxt next.                                                 *)

\* s without its g-th element
RemoveAt(s, g) == SubSeq(s, 1, g - 1) \o SubSeq(s, g + 1, Len(s))

\* The planned, formatted result stream of an object whose restriction is not
\* None: the values, the exception raised when it is consumed and the remote
\* calls made.  When the collaborator fails, the first call raises.
Plan(h, self, st, fail) ==
    LET Formatted(stream, formatted) ==
            IF fail
            THEN [exc |-> "RemoteError", vals |-> <<>>,
                  calls |-> SubSeq(stream.calls, 1, 1)]
            ELSE [exc |-> formatted.exc, vals |-> formatted.vals,
                  calls |-> stream.calls]
        Queried(stream) == Formatted(stream, result_formatter(self, stream))
    IN  Queried(_query(h, self, st))

\* An __iter__ that does not look at the cache
iter_uncached(h, self, st, fail) ==
    LET Planned(plan) ==
            [exc |-> plan.exc, src |-> "query", stream |-> plan.vals,
             calls |-> plan.calls]
    IN  IF IsNone(self.q)
        THEN [exc |-> "", src |-> "query", stream |-> <<>>, calls |-> <<>>]
        ELSE Planned(Plan(h, self, st, fail))

\* __iter__ from its first next() to its first yield: the source of the
\* values (the cache, or the query), the values it will yield, the exception
\* raised and the remote calls made.  With restriction None the stream of the
\* query is empty and no call is made.
__iter__(h, self, st, fail) ==
    LET Planned(plan) ==
            [exc |-> plan.exc, src |-> "query", stream |-> plan.vals,
             calls |-> plan.calls]
    IN  IF ~IsNone(self.cache)
        THEN [exc |-> "", src |-> "cache", stream |-> The(self.cache),
              calls |-> <<>>]
        ELSE IF IsNone(self.q)
        THEN [exc |-> "", src |-> "query", stream |-> <<>>, calls |-> <<>>]
        ELSE Planned(Plan(h, self, st, fail))

\* The cache after __iter__ has run to its end: the values a pass over the
\* query yielded; a pass over the cache leaves it alone
Commit(self, src, stream) ==
    IF src = "query" THEN Some(stream) ELSE self.cache

\* A new iterator over object s
NewGen(s, start, stop, step) ==
    [self |-> s, src |-> "new", stream |-> <<>>, n |-> 0,
     nxt |-> start, stop |-> stop, step |-> step]

\* next() of an iterator: the exception raised ("StopIteration" at the end),
\* the value yielded, the remote calls made, the iterator afterwards (None
\* when it is finished) and the cache of its object afterwards
islice_next(h, self, gen, st, fail) ==
    LET reads == gen.n < gen.nxt \/ IsNone(gen.stop) \/ gen.n < The(gen.stop)
        cnt == IF gen.n < gen.nxt THEN gen.nxt ELSE gen.n
        at_stop == ~IsNone(gen.stop) /\ cnt >= The(gen.stop)
        stepped == gen.nxt + gen.step
        Done(exc, calls, cache) ==
            [exc |-> exc, val |-> <<>>, calls |-> calls, gen |-> None,
             cache |-> cache]
        Read(begun) ==
            IF begun.exc # "" THEN Done(begun.exc, begun.calls, self.cache)
            ELSE IF Len(begun.stream) < gen.nxt
                    \/ (~at_stop /\ cnt >= Len(begun.stream))
            THEN Done("StopIteration", begun.calls,
                      Commit(self, begun.src, begun.stream))
            ELSE IF at_stop
            THEN Done("StopIteration", begun.calls, self.cache)
            ELSE [exc |-> "", val |-> begun.stream[cnt + 1],
                  calls |-> begun.calls,
                  gen |-> Some([gen EXCEPT
                            !.src = begun.src,
                            !.stream = begun.stream,
                            !.n = cnt + 1,
                            !.nxt = IF ~IsNone(gen.stop)
                                       /\ stepped > The(gen.stop)
                                    THEN The(gen.stop) ELSE stepped]),
                  cache |-> self.cache]
    IN  IF ~reads THEN Done("StopIteration", <<>>, self.cache)
        ELSE Read(IF gen.src = "new" THEN __iter__(h, self, st, fail)
                  ELSE [exc |-> IF fail /\ gen.src = "query"
                                THEN "RemoteError" ELSE "",
                        src |-> gen.src, stream |-> gen.stream,
                        calls |-> <<>>])

\* The effect of a next() that gave r on iterator g (0: a new iterator).  A
\* failure of the collaborator (fail) needs a remote call to fail in.
Stepped(op, g, gen, fail, r) ==
    /\ fail => r.exc = "RemoteError"
    /\ gens' = IF IsNone(r.gen)
               THEN (IF g = 0 THEN gens ELSE RemoveAt(gens, g))
               ELSE (IF g = 0 THEN Append(gens, The(r.gen))
                     ELSE [gens EXCEPT ![g] = The(r.gen)])
    /\ qs' = [qs EXCEPT ![gen.self].cache = r.cache]
    /\ last' = Last(op, gen.self, g,
                    IF r.exc = "" THEN Returned(r.val) ELSE Raised(r.exc),
                    r.calls)
    /\ UNCHANGED <<ordHeap, store>>

\* iter(qs[s]) and its first next()
Iter_start(s, fail, max) ==
    LET gen == NewGen(s, 0, None, 1)
    IN  /\ Len(gens) < max
        /\ Stepped("iter", 0, gen, fail,
                   islice_next(ordHeap, qs[s], gen, store, fail))

\* next() of iterator g
Iter_next(g, fail) ==
    Stepped("next", g, gens[g], fail,
            islice_next(ordHeap, qs[gens[g].self], gens[g], store, fail))

\* An abandoned iterator that leaves the values it has yielded in the cache
Iter_close_commit(g) ==
    /\ gens' = RemoveAt(gens, g)
    /\ qs' = [qs EXCEPT ![gens[g].self].cache =
                  IF gens[g].src = "query"
                  THEN Some(SubSeq(gens[g].stream, 1, gens[g].n))
                  ELSE @]
    /\ last' = Last("close", gens[g].self,
                    [taken |-> gens[g].n, of |-> Len(gens[g].stream)],
                    Returned(<<>>), <<>>)
    /\ UNCHANGED <<ordHeap, store>>

\* The consumer abandons iterator g (break, or the iterator is dropped), of
\* which it has taken some of the values
Iter_close(g) ==
    /\ gens' = RemoveAt(gens, g)
    /\ last' = Last("close", gens[g].self,
                    [taken |-> gens[g].n, of |-> Len(gens[g].stream)],
                    Returned(<<>>), <<>>)
    /\ UNCHANGED <<qs, ordHeap, store>>

\* The client iterates one of its objects, holding at most max iterators
Iterate(max) ==
    \/ \E s \in DOMAIN qs, fail \in BOOLEAN : Iter_start(s, fail, max)
    \/ \E g \in DOMAIN gens, fail \in BOOLEAN : Iter_next(g, fail)
    \/ \E g \in DOMAIN gens : Iter_close(g)

-----------------------------------------------------------------------------
(* Methods that end chaining, indexing and len(): each gives the exception *)
(* raised ("" when none), the value returned, the remote calls made, the   *)
(* receiver after the call and the folder contents after the call          *)

\* FindItem.CHUNKSIZE
CHUNKSIZE == 100
\* The index below which _getitem_idx also sets page_size
SmallIndex == 100
\* The default page_size of count() and delete()
CountPageSize == 1000

Result(exc, val, calls, self, st) ==
    [exc |-> exc, val |-> val, calls |-> calls, obj |-> self, store |-> st,
     gen |-> None]

\* list(self.__iter__()): a complete pass over an object.  The values, the
\* exception raised, the remote calls made and the cache afterwards.
Exhaust(h, self, st, fail) ==
    LET Listed(plan) ==
            IF plan.exc # ""
            THEN [exc |-> plan.exc, vals |-> <<>>, calls |-> plan.calls,
                  cache |-> None]
            ELSE [exc |-> "", vals |-> plan.vals, calls |-> plan.calls,
                  cache |-> Some(plan.vals)]
    IN  IF ~IsNone(self.cache)
        THEN [exc |-> "", vals |-> The(self.cache), calls |-> <<>>,
              cache |-> self.cache]
        ELSE IF IsNone(self.q)
        THEN [exc |-> "", vals |-> <<>>, calls |-> <<>>, cache |-> Some(<<>>)]
        ELSE Listed(Plan(h, self, st, fail))

\* The copy count() and delete() iterate: no projection, no ordering, items
IdsOnly(h, self, page_size) ==
    [copy(h, self).obj EXCEPT !.only_fields = Some(<<>>),
                              !.order_fields = None,
                              !.return_format = NONE,
                              !.page_size = Some(page_size)]

count(h, self, st, fail) ==
    LET Counted(pass) ==
            IF pass.exc # "" THEN Result(pass.exc, <<>>, pass.calls, self, st)
            ELSE Result("", Len(pass.vals), pass.calls, self, st)
    IN  IF ~IsNone(self.cache)
        THEN Result("", Len(The(self.cache)), <<>>, self, st)
        ELSE Counted(Exhaust(h, IdsOnly(h, self, CountPageSize), st, fail))

__len__(h, self, st, fail) ==
    IF ~IsNone(self.cache)
    THEN Result("", Len(The(self.cache)), <<>>, self, st)
    ELSE count(h, self, st, fail)

exists(h, self, st, fail) ==
    LET Positive(n) == IF n.exc # "" THEN n ELSE [n EXCEPT !.val = n.val > 0]
    IN  Positive(count(h, self, st, fail))

iterator(h, self, page_size, st, fail) ==
    LET Streamed(paged, stream) ==
            IF fail
            THEN Result("RemoteError", <<>>, SubSeq(stream.calls, 1, 1),
                        paged, st)
            ELSE Result("", stream.items, stream.calls, paged, st)
        Paged(paged) == Streamed(paged, _query(h, paged, st))
    IN  IF IsNone(self.q) THEN Result("", <<>>, <<>>, self, st)
        ELSE IF ~IsNone(self.cache)
        THEN Result("", The(self.cache), <<>>, self, st)
        ELSE Paged([self EXCEPT !.page_size = page_size])

\* An end of get() that gives the first of several items
first_item(found, self, st) ==
    IF found.exc # "" THEN Result(found.exc, <<>>, found.calls, self, st)
    ELSE IF Len(found.vals) = 0
    THEN Result("DoesNotExist", <<>>, found.calls, self, st)
    ELSE Result("", found.vals[1], found.calls, self, st)

\* The end of get(): the one item of the items found, or the exception
one_item(found, self, st) ==
    IF found.exc # "" THEN Result(found.exc, <<>>, found.calls, self, st)
    ELSE IF Len(found.vals) = 0
    THEN Result("DoesNotExist", <<>>, found.calls, self, st)
    ELSE IF Len(found.vals) # 1
    THEN Result("MultipleObjectsReturned", <<>>, found.calls, self, st)
    ELSE Result("", found.vals[1], found.calls, self, st)

get(h, self, kwargs, st, fail) ==
    LET ids == << <<kwargs["item_id"], kwargs["changekey"]>> >>
        only_fields == IF IsNone(self.only_fields) THEN None
                       ELSE Some(Range(The(self.only_fields)))
        Filtered(new_qs) == Exhaust(new_qs.heap, new_qs.obj, st, fail)
        One(found) == one_item(found, self, st)
    IN  IF ~IsNone(self.cache) /\ kwargs = NoKwargs
        THEN One([exc |-> "", vals |-> The(self.cache), calls |-> <<>>])
        ELSE IF DOMAIN kwargs = {"item_id", "changekey"}
        THEN One([exc |-> IF fail THEN "RemoteError" ELSE "",
                  vals |-> fetch(st, ids, only_fields),
                  calls |-> <<FetchCall(ids, only_fields)>>])
        ELSE One(Filtered(filter(h, self, kwargs)))

\* The item ids account.bulk_delete reads from the values it is given:
\* (item_id, changekey) pairs or items; other values are refused
Identities(h, self, vals) ==
    LET pairs == /\ self.only_fields = Some(<<>>)
                 /\ ~(self.calendar_view /\ Truthy(OrderFields(h, self)))
    IN  IF self.return_format # NONE
        THEN [exc |-> "ValueError", ids |-> <<>>]
        ELSE [exc |-> "",
              ids |-> [n \in DOMAIN vals |->
                          IF pairs THEN vals[n][1] ELSE vals[n]["item_id"]]]

\* account.bulk_delete(ids): the folder without the given items
bulk_delete(st, ids) == st \ Range(ids)

\* A delete() that keeps the cache it has deleted the items of
delete_cached_keep(h, self, st, fail) ==
    LET Deleted(given) ==
            IF fail
            THEN Result("RemoteError", <<>>, <<BulkDeleteCall(given.ids)>>,
                        self, st)
            ELSE IF given.exc # ""
            THEN Result(given.exc, <<>>, <<BulkDeleteCall(given.ids)>>,
                        self, st)
            ELSE Result("", Len(given.ids), <<BulkDeleteCall(given.ids)>>,
                        self, bulk_delete(st, given.ids))
    IN  Deleted(Identities(h, self, The(self.cache)))

\* delete() when the cache is set
delete_cached(h, self, st, fail) ==
    LET Deleted(given) ==
            IF fail
            THEN Result("RemoteError", <<>>, <<BulkDeleteCall(given.ids)>>,
                        self, st)
            ELSE IF given.exc # ""
            THEN Result(given.exc, <<>>, <<BulkDeleteCall(given.ids)>>,
                        self, st)
            ELSE Result("", Len(given.ids), <<BulkDeleteCall(given.ids)>>,
                        [self EXCEPT !.cache = None],
                        bulk_delete(st, given.ids))
    IN  Deleted(Identities(h, self, The(self.cache)))

\* delete() when the cache is unset: bulk_delete iterates a copy
delete_uncached(h, self, st, fail) ==
    LET Deleted(pass, given) ==
            IF pass.exc # "" THEN Result(pass.exc, <<>>, pass.calls, self, st)
            ELSE IF fail
            THEN Result("RemoteError", <<>>,
                        pass.calls \o <<BulkDeleteCall(given.ids)>>, self, st)
            ELSE Result("", Len(given.ids),
                        pass.calls \o <<BulkDeleteCall(given.ids)>>, self,
                        bulk_delete(st, given.ids))
        Passed(new_qs, pass) ==
            Deleted(pass, Identities(h, new_qs, pass.vals))
        Copied(new_qs) ==
            Passed(new_qs, Exhaust(h, new_qs, st, fail /\ ~IsNone(self.q)))
    IN  Copied(IdsOnly(h, self, CountPageSize))

delete(h, self, st, fail) ==
    IF ~IsNone(self.cache) THEN delete_cached(h, self, st, fail)
    ELSE delete_uncached(h, self, st, fail)

\* Python's list[idx]
ListIndex(list, idx) ==
    IF 0 <= idx /\ idx < Len(list) THEN [exc |-> "", val |-> list[idx + 1]]
    ELSE IF idx < 0 /\ -idx <= Len(list)
    THEN [exc |-> "", val |-> list[Len(list) + idx + 1]]
    ELSE [exc |-> "IndexError", val |-> <<>>]

\* _getitem_idx(idx) for idx >= 0 on an object whose cache is unset: the
\* paging hints are set on the object itself, then __iter__ is consumed up to
\* the index; the cache is set only if the stream ends before it
getitem_forward(h, self, idx, st, fail) ==
    LET Upto(hinted, plan) ==
            IF plan.exc # "" THEN Result(plan.exc, <<>>, plan.calls, hinted, st)
            ELSE IF idx < Len(plan.vals)
            THEN Result("", plan.vals[idx + 1], plan.calls, hinted, st)
            ELSE Result("IndexError", <<>>, plan.calls,
                        [hinted EXCEPT !.cache = Some(plan.vals)], st)
        Hinted(hinted) ==
            IF IsNone(self.q)
            THEN Result("IndexError", <<>>, <<>>,
                        [hinted EXCEPT !.cache = Some(<<>>)], st)
            ELSE Upto(hinted, Plan(h, hinted, st, fail))
    IN  Hinted(IF idx < CHUNKSIZE
               THEN [self EXCEPT !.page_size =
                                     IF idx < SmallIndex THEN Some(idx + 1)
                                     ELSE self.page_size,
                                 !.max_items = Some(idx + 1)]
               ELSE self)

\* _getitem_idx(idx)
_getitem_idx(h, self, idx, st, fail) ==
    LET Hit(hit) == Result(hit.exc, hit.val, <<>>, self, st)
        Got(got) == Result(got.exc, got.val, got.calls, self, st)
        Reversed(reversed) ==
            IF reversed.exc # ""
            THEN Result(reversed.exc, <<>>, <<>>, self, st)
            ELSE Got(getitem_forward(reversed.heap, reversed.obj, -(idx + 1),
                                     st, fail))
    IN  IF ~IsNone(self.cache) THEN Hit(ListIndex(The(self.cache), idx))
        ELSE IF idx < 0 THEN Reversed(reverse(h, self))
        ELSE getitem_forward(h, self, idx, st, fail)

\* Python's list[start:stop:step]
ListSlice(list, sl) ==
    LET len == Len(list)
        step == IF IsNone(sl.step) THEN 1 ELSE The(sl.step)
        Bound(o, dflt, lowest, highest) ==
            IF IsNone(o) THEN dflt
            ELSE IF The(o) < 0
            THEN (IF The(o) + len < lowest THEN lowest ELSE The(o) + len)
            ELSE (IF The(o) > highest THEN highest ELSE The(o))
        lo == IF step > 0 THEN Bound(sl.start, 0, 0, len)
              ELSE Bound(sl.start, len - 1, -1, len - 1)
        hi == IF step > 0 THEN Bound(sl.stop, len, 0, len)
              ELSE Bound(sl.stop, -1, -1, len - 1)
        size == IF step > 0
                 THEN (IF hi > lo THEN (hi - lo + step - 1) \div step ELSE 0)
                 ELSE (IF lo > hi THEN (lo - hi - step - 1) \div (-step)
                       ELSE 0)
    IN  [k \in 1..size |-> list[lo + (k - 1) * step + 1]]

\* x or 0
OrZero(o) == IF IsNone(o) THEN 0 ELSE The(o)

\* A slice that takes a complete pass and leaves the cache as it was
getitem_slice_uncached(h, self, s, sl, st, fail) ==
    LET Sliced(pass) ==
            IF pass.exc # "" THEN Result(pass.exc, <<>>, pass.calls, self, st)
            ELSE Result("", ListSlice(pass.vals, sl), pass.calls, self, st)
        hinted == IF IsNone(self.cache) /\ ~IsNone(sl.stop)
                     /\ The(sl.stop) < CHUNKSIZE
                  THEN [self EXCEPT !.page_size =
                                        IF The(sl.stop) < SmallIndex
                                        THEN sl.stop ELSE self.page_size,
                                    !.max_items = sl.stop]
                  ELSE self
        step == IF IsNone(sl.step) THEN 1 ELSE The(sl.step)
    IN  IF OrZero(sl.start) < 0 \/ OrZero(sl.stop) < 0 \/ OrZero(sl.step) < 0
        THEN Sliced(Exhaust(h, self, st, fail))
        ELSE [Result("", "islice", <<>>, hinted, st)
                 EXCEPT !.gen = Some(NewGen(s, OrZero(sl.start), sl.stop,
                                            step))]

\* _getitem_slice(s) on object number s: a negative start, stop or step
\* consumes __iter__ and slices the cache; otherwise the paging hints are set
\* on the object and an islice that is not started is returned (gen)
_getitem_slice(h, self, s, sl, st, fail) ==
    LET Sliced(pass) ==
            IF pass.exc # "" THEN Result(pass.exc, <<>>, pass.calls, self, st)
            ELSE Result("", ListSlice(pass.vals, sl), pass.calls,
                        [self EXCEPT !.cache = pass.cache], st)
        hinted == IF IsNone(self.cache) /\ ~IsNone(sl.stop)
                     /\ The(sl.stop) < CHUNKSIZE
                  THEN [self EXCEPT !.page_size =
                                        IF The(sl.stop) < SmallIndex
                                        THEN sl.stop ELSE self.page_size,
                                    !.max_items = sl.stop]
                  ELSE self
        step == IF IsNone(sl.step) THEN 1 ELSE The(sl.step)
    IN  IF OrZero(sl.start) < 0 \/ OrZero(sl.stop) < 0 \/ OrZero(sl.step) < 0
        THEN Sliced(Exhaust(h, self, st, fail))
        ELSE [Result("", "islice", <<>>, hinted, st)
                 EXCEPT !.gen = Some(NewGen(s, OrZero(sl.start), sl.stop,
                                            step))]

-----------------------------------------------------------------------------
(* The client's calls of these methods *)

\* The criteria given to get()
GetArgs ==
    {NoKwargs,
     [f \in {"b"} |-> 2],
     [f \in {"item_id", "changekey"} |-> IF f = "item_id" THEN 1 ELSE 11]}

\* The indices given to qs[idx]
Indices == {-1, 0}

\* A terminal call on object s that gave r.  A failure of the collaborator
\* (fail) needs a remote call to fail in.
Terminal(op, s, arg, fail, r) ==
    /\ fail => r.calls # <<>> /\ r.exc = "RemoteError"
    /\ qs' = [qs EXCEPT ![s] = r.obj]
    /\ store' = r.store
    /\ last' = Last(op, s, arg,
                    IF r.exc = "" THEN Returned(r.val) ELSE Raised(r.exc),
                    r.calls)
    /\ UNCHANGED <<ordHeap, gens>>

Call_len(s, fail) ==
    Terminal("len", s, <<>>, fail, __len__(ordHeap, qs[s], store, fail))

Call_count(s, fail) ==
    Terminal("count", s, <<>>, fail, count(ordHeap, qs[s], store, fail))

Call_exists(s, fail) ==
    Terminal("exists", s, <<>>, fail, exists(ordHeap, qs[s], store, fail))

Call_iterator(s, fail) ==
    Terminal("iterator", s, <<>>, fail,
             iterator(ordHeap, qs[s], None, store, fail))

Call_get(s, kwargs, fail) ==
    Terminal("get", s, kwargs, fail, get(ordHeap, qs[s], kwargs, store, fail))

Call_delete(s, fail) ==
    Terminal("delete", s, ~IsNone(qs[s].cache), fail,
             delete(ordHeap, qs[s], store, fail))

Call_getitem(s, idx, fail) ==
    Terminal("getitem", s, idx, fail,
             _getitem_idx(ordHeap, qs[s], idx, store, fail))

\* qs[s][start:stop:step], holding at most max iterators
Call_getitem_slice(s, sl, fail, max) ==
    LET r == _getitem_slice(ordHeap, qs[s], s, sl, store, fail)
    IN  /\ ~IsNone(r.gen) => Len(gens) < max
        /\ fail => r.exc = "RemoteError"
        /\ qs' = [qs EXCEPT ![s] = r.obj]
        /\ gens' = IF IsNone(r.gen) THEN gens ELSE Append(gens, The(r.gen))
        /\ last' = Last("getslice", s, sl,
                        IF r.exc = "" THEN Returned(r.val) ELSE Raised(r.exc),
                        r.calls)
        /\ UNCHANGED <<ordHeap, store>>

\* The slices given to qs[start:stop:step]
Slices ==
    {[start |-> Some(0), stop |-> Some(1), step |-> None],
     [start |-> Some(-1), stop |-> None, step |-> None]}

\* The client slices one of its objects
Slice(max) ==
    \E s \in DOMAIN qs, sl \in Slices : Call_getitem_slice(s, sl, FALSE, max)

\* The client indexes one of its objects
Index == \E s \in DOMAIN qs, idx \in Indices : Call_getitem(s, idx, FALSE)

\* The client calls a terminal method of one of its objects
Consume ==
    \E s \in DOMAIN qs :
        \/ Call_len(s, FALSE)
        \/ Call_count(s, FALSE)
        \/ Call_exists(s, FALSE)
        \/ Call_iterator(s, FALSE)
        \/ \E kwargs \in GetArgs : Call_get(s, kwargs, FALSE)
        \/ \E fail \in BOOLEAN : Call_delete(s, fail)

-----------------------------------------------------------------------------
(* Specifications *)

\* A client that holds one queryset, obtained from QuerySet(folder) by one
\* chaining call, and consumes it
UseShapes ==
    {all(<<>>, QuerySet_init),
     none(<<>>, QuerySet_init),
     order_by(<<>>, QuerySet_init, << <<"b">> >>),
     values_list(<<>>, QuerySet_init, <<"a">>, TRUE)}

InitUse ==
    /\ \E r \in UseShapes : qs = <<r.obj>> /\ ordHeap = r.heap
    /\ gens = <<>>
    /\ store = ItemIds
    /\ last = Constructed

\* A client that builds querysets, iterates them and indexes them
Next == Chain(MaxQS) \/ Iterate(MaxGens) \/ Index

Spec == InitUse /\ [][Next]_vars

\* A client that only builds querysets
NextChain == Chain(MaxChain)

SpecChain == Init /\ [][NextChain]_vars

NextUse == Iterate(MaxGens) \/ Index \/ Slice(MaxGens) \/ Consume

SpecUse == InitUse /\ [][NextUse]_vars

\* The slices a client that slices gives: a negative start, a negative stop,
\* a negative step, and slices with no negative part
SliceArgs ==
    {[start |-> Some(-1), stop |-> None, step |-> None],
     [start |-> None, stop |-> Some(-1), step |-> None],
     [start |-> None, stop |-> None, step |-> Some(-1)],
     [start |-> Some(0), stop |-> Some(1), step |-> None],
     [start |-> Some(1), stop |-> None, step |-> None]}

\* The client slices one of its objects with one of these slices
SliceAny(max) ==
    \E s \in DOMAIN qs, sl \in SliceArgs :
        Call_getitem_slice(s, sl, FALSE, max)

\* A client that holds one queryset and iterates, indexes and slices it
NextSlice == Iterate(MaxGens) \/ Index \/ SliceAny(MaxGens)

SpecSlice == InitUse /\ [][NextSlice]_vars

\* folder.view(start, end): QuerySet(folder) with the calendar view marker
\* set
view == [QuerySet_init EXCEPT !.calendar_view = TRUE]

\* The projections and the orderings of the objects whose plan is examined
PlanFields ==
    {<<"a">>, <<"body">>, <<"item_id">>, <<"item_id", "a">>,
     <<"item_id", "changekey">>}

PlanOrders ==
    {<< <<"b">> >>, << <<"a">>, <<"b">> >>, << <<"a">>, <<"-", "b">> >>,
     << <<"b">>, <<"body">> >>, << <<"-", "a">> >>, << <<"body">> >>,
     << <<"item_id">> >>}

\* QuerySet(folder) and folder.view(), as they are and after only(),
\* values() or values_list()
PlanProjected ==
    LET Of(base) ==
            {all(<<>>, base)}
                \cup {only(<<>>, base, args) : args \in PlanFields}
                \cup {values(<<>>, base, args) : args \in PlanFields}
                \cup {values_list(<<>>, base, args, flat) :
                          args \in PlanFields, flat \in BOOLEAN}
    IN  {r \in Of(QuerySet_init) \cup Of(view) : r.exc = ""}

\* These objects as they are and after order_by()
PlanShapes ==
    PlanProjected
        \cup {order_by(r.heap, r.obj, args) :
                  r \in PlanProjected, args \in PlanOrders}

InitPlan ==
    /\ \E r \in PlanShapes : qs = <<r.obj>> /\ ordHeap = r.heap
    /\ gens = <<>>
    /\ store = ItemIds
    /\ last = Constructed

\* A client that holds one queryset and iterates it
NextPlan == Iterate(MaxGens)

SpecPlan == InitPlan /\ [][NextPlan]_vars

\* The field names a client that only sets projections gives to only(),
\* values() and values_list(): none, one and two
ProjectionArgs == {<<>>, <<"a">>, <<"a", "b">>}

\* The client calls only(), values() or values_list() on one of its objects,
\* while it holds fewer than max objects
Project(max) ==
    /\ Len(qs) < max
    /\ \E s \in DOMAIN qs, args \in ProjectionArgs :
        \/ Call_only(s, args)
        \/ Call_values(s, args)
        \/ \E flat \in BOOLEAN : Call_values_list(s, args, flat)

\* A client that only sets projections and return formats
NextFormat == Project(MaxChain)

SpecFormat == Init /\ [][NextFormat]_vars

\* A client that holds one queryset and up to MaxIters iterators of it,
\* which it advances in any interleaving
NextRace == Iterate(MaxIters)

SpecRace == InitUse /\ [][NextRace]_vars

\* The client calls delete() on one of its objects
Delete == \E s \in DOMAIN qs, fail \in BOOLEAN : Call_delete(s, fail)

\* A client that holds one queryset, iterates it and calls delete() on it
NextDelete == Iterate(MaxGens) \/ Delete

SpecDelete == InitUse /\ [][NextDelete]_vars

-----------------------------------------------------------------------------
(* Properties *)

\* The methods that support chaining
ChainOps ==
    {"all", "none", "filter", "exclude", "only", "order_by", "reverse",
     "values", "values_list"}

\* The calls that consume an object
ConsumeOps ==
    {"iter", "next", "getitem", "getslice", "len", "count", "exists",
     "iterator", "get", "delete"}

\* C1: copy isolation.  A call of a chaining method leaves every field of the
\* receiver (restriction, projection, ordering with the direction flag of
\* each ordering field, return format, view marker, paging hints, cache) as
\* it was, and a call on one object leaves every other object as it was: in
\* particular no call on a returned copy changes the receiver.
CopyIsolation ==
    [][\A s \in DOMAIN qs :
          (last'.op \in ChainOps \/ last'.self # s)
              => /\ qs'[s] = qs[s]
                 /\ OrderFields(ordHeap', qs'[s]) = OrderFields(ordHeap, qs[s])
      ]_vars

\* C1 witness: reverse() of an ordered object has given a copy with the
\* direction flags flipped, the copy has since been iterated to its end and
\* holds a cache, and the receiver has its flags and no cache.
CopyIsolationWitness ==
    /\ Len(qs) = 2
    /\ Truthy(OrderFields(ordHeap, qs[1]))
    /\ The(OrderFields(ordHeap, qs[2])) = Flip(The(OrderFields(ordHeap, qs[1])))
    /\ ~IsNone(qs[2].cache)
    /\ IsNone(qs[1].cache)

\* C2: partial-consumption safety.  An iterator that is abandoned and a call
\* in which the collaborator raises leave the cache as it was, so an unset
\* cache stays unset.  An iteration sets the cache only in the step in which
\* it comes to the end of its stream, and then to the whole planned stream;
\* an iteration begun with the cache unset and a restriction other than None
\* makes the remote calls of the plan again and has the whole planned stream
\* to yield.
PartialConsumptionSafety ==
    [][LET s == last'.self
           plan == Plan(ordHeap, qs[s], store, FALSE)
       IN  /\ (last'.op = "close" \/ last'.ret.exc = "RemoteError")
                  => qs'[s].cache = qs[s].cache
           /\ (last'.op \in {"iter", "next"}
               /\ IsNone(qs[s].cache) /\ ~IsNone(qs'[s].cache))
                  => /\ last'.ret.exc = "StopIteration"
                     /\ qs'[s].cache =
                            Some(IF last'.op = "next"
                                 THEN gens[last'.arg[2]].stream
                                 ELSE IF IsNone(qs[s].q) THEN <<>>
                                 ELSE plan.vals)
           /\ (last'.op = "iter" /\ IsNone(qs[s].cache) /\ ~IsNone(qs[s].q)
               /\ last'.ret.exc = "")
                  => /\ last'.calls = plan.calls
                     /\ last'.calls # <<>>
                     /\ gens'[Len(gens')].stream = plan.vals
                     /\ last'.ret = Returned(plan.vals[1])
      ]_vars

\* C2 witness: an iterator over the planned stream of two results has been
\* abandoned after one of them, and the cache of its object is unset.
PartialConsumptionWitness ==
    /\ last.op = "close"
    /\ last.arg[2].taken = 1
    /\ last.arg[2].of = 2
    /\ IsNone(qs[last.self].cache)

\* The index of the stream an iterator yields next
NextIndex(gen) == (IF gen.n < gen.nxt THEN gen.nxt ELSE gen.n) + 1

\* C3: cache hit.  A consumption of an object whose cache is set (a new
\* iteration, next() of an iterator begun on the cache, an index, a slice,
\* len(), count(), exists(), iterator(), get() without criteria) makes no
\* remote call, leaves the cache as it is and gives the values of the cache
\* in the order of the cache.
CacheHit ==
    [][LET s == last'.self
           cache == The(qs[s].cache)
           op == last'.op
           gen == gens[last'.arg[2]]
           from == IF gen.src = "new" THEN cache ELSE gen.stream
       IN  (/\ op \in ConsumeOps \ {"delete"}
            /\ ~IsNone(qs[s].cache)
            /\ op = "get" => DOMAIN last'.arg[2] = {}
            /\ op = "next" => gen.src # "query")
               => /\ last'.calls = <<>>
                  /\ qs'[s].cache = qs[s].cache
                  /\ op = "iter" =>
                        IF cache = <<>> THEN last'.ret = Raised("StopIteration")
                        ELSE /\ last'.ret = Returned(cache[1])
                             /\ gens'[Len(gens')].stream = cache
                  /\ op = "next" =>
                        \/ last'.ret = Raised("StopIteration")
                        \/ last'.ret = Returned(from[NextIndex(gen)])
                  /\ op = "getitem" =>
                        LET hit == ListIndex(cache, last'.arg[2])
                        IN  last'.ret = IF hit.exc = "" THEN Returned(hit.val)
                                        ELSE Raised(hit.exc)
                  /\ op = "getslice" =>
                        IF OrZero(last'.arg[2].start) < 0
                        THEN last'.ret =
                                 Returned(ListSlice(cache, last'.arg[2]))
                        ELSE last'.ret = Returned("islice")
                  /\ op \in {"len", "count"} =>
                        last'.ret = Returned(Len(cache))
                  /\ op = "exists" => last'.ret = Returned(Len(cache) > 0)
                  /\ op = "iterator" => last'.ret = Returned(cache)
                  /\ op = "get" =>
                        CASE Len(cache) = 0 ->
                                 last'.ret = Raised("DoesNotExist")
                          [] Len(cache) = 1 -> last'.ret = Returned(cache[1])
                          [] OTHER ->
                                 last'.ret = Raised("MultipleObjectsReturned")
      ]_vars

\* C3 witness: the cache holds the two results of a complete iteration, and
\* a new iteration of the object has given the first of them without a
\* remote call.
CacheHitWitness ==
    /\ last.op = "iter"
    /\ ~IsNone(qs[last.self].cache)
    /\ Len(The(qs[last.self].cache)) = 2
    /\ last.ret = Returned(The(qs[last.self].cache)[1])
    /\ last.calls = <<>>

\* C4: filter() and exclude() of an object whose restriction is None (match
\* nothing) give an object whose restriction is None.
SentinelKept ==
    [][(/\ last'.op \in {"filter", "exclude"}
        /\ last'.ret.exc = ""
        /\ IsNone(qs[last'.self].q))
           => IsNone(qs'[Len(qs')].q)
      ]_vars

\* C5: every consuming call on an object whose restriction is None (match
\* nothing) makes no find_items and no fetch call and gives the empty
\* result: the end of the iteration, a length of 0, no item deleted, and
\* DoesNotExist from get().
SentinelShortCircuit ==
    [][LET op == last'.op
       IN  (op \in ConsumeOps /\ IsNone(qs[last'.self].q))
               => /\ \A n \in DOMAIN last'.calls :
                         last'.calls[n].svc = "bulk_delete"
                  /\ op \in {"iter", "next"} =>
                         last'.ret.exc = "StopIteration"
                  /\ op \in {"len", "count"} => last'.ret = Returned(0)
                  /\ op = "exists" => last'.ret = Returned(FALSE)
                  /\ op = "iterator" => last'.ret = Returned(<<>>)
                  /\ op = "get" => last'.ret.exc = "DoesNotExist"
                  /\ (op = "delete" /\ last'.ret.exc = "") =>
                         last'.ret = Returned(0)
      ]_vars

\* C6: laziness.  A call of a chaining method, whether it gives a new object
\* or raises, makes no remote call, leaves the folder and every cache as they
\* are, and the object it gives has no cache; a step that makes a remote call
\* is a consuming call.
Laziness ==
    [][/\ last'.op \in ChainOps
              => /\ last'.calls = <<>>
                 /\ store' = store
                 /\ \A s \in DOMAIN qs : qs'[s].cache = qs[s].cache
                 /\ last'.ret.exc = "" => IsNone(qs'[Len(qs')].cache)
       /\ last'.calls # <<>> => last'.op \in ConsumeOps
      ]_vars

\* C6 witness: a chaining method called on an object whose cache is set has
\* given a new object, which has no cache, without a remote call.
LazinessWitness ==
    /\ last.op \in ChainOps
    /\ last.ret.exc = ""
    /\ ~IsNone(qs[last.self].cache)
    /\ IsNone(qs[Len(qs)].cache)
    /\ last.calls = <<>>

\* C7: after delete() the cache of the object is unset, whether bulk_delete
\* returned or raised.
DeleteInvalidates ==
    [][last'.op = "delete" => IsNone(qs'[last'.self].cache)]_vars

\* C8 as stated: len() called next after a delete() that found the cache set
\* and returned normally finds the cache unset and makes a find_items call.
FreshCountAfterDelete ==
    [][(last'.op = "len" /\ last'.invalidated)
           => /\ IsNone(qs[last'.self].cache)
              /\ \E n \in DOMAIN last'.calls :
                    last'.calls[n].svc = "find_items"
      ]_vars

\* C8: len() called next after a delete() that found the cache set and
\* returned normally finds the cache unset; with a restriction other than
\* None it makes a find_items call and gives the number of items of the
\* folder that match now, and with the restriction None (match nothing) it
\* gives 0 without a remote call.
FreshCountAfterDeleteUnlessNone ==
    [][LET self == qs[last'.self]
       IN  (last'.op = "len" /\ last'.invalidated)
               => /\ IsNone(self.cache)
                  /\ IF IsNone(self.q)
                     THEN last'.calls = <<>> /\ last'.ret = Returned(0)
                     ELSE /\ \E n \in DOMAIN last'.calls :
                                last'.calls[n].svc = "find_items"
                          /\ last'.ret =
                                Returned(Cardinality(
                                    {i \in store : Matches(The(self.q), i)}))
      ]_vars

\* C8 witness: the two items of a complete iteration have been deleted by a
\* delete() that found the cache set, and the len() called next has made a
\* remote call and given 0.
FreshCountWitness ==
    /\ last.op = "len"
    /\ last.invalidated
    /\ last.calls # <<>>
    /\ last.ret = Returned(0)
    /\ store = {}

\* C9: get() gives an item exactly when the result set it selects has one
\* element, and then that element; it raises DoesNotExist when the set is
\* empty and MultipleObjectsReturned when it has more.  The set is the cache
\* when there are no criteria and the cache is set (no remote call), the
\* fetch of the pair when the criteria are item_id and changekey, and
\* otherwise the complete iteration of the filtered copy; the receiver and
\* its cache are left as they are.
GetCardinality ==
    [][LET s == last'.self
           self == qs[s]
           kwargs == last'.arg[2]
           ids == << <<kwargs["item_id"], kwargs["changekey"]>> >>
           only_fields == IF IsNone(self.only_fields) THEN None
                          ELSE Some(Range(The(self.only_fields)))
           new_qs == filter(ordHeap, self, kwargs)
           branch == IF ~IsNone(self.cache) /\ DOMAIN kwargs = {}
                     THEN "cache"
                     ELSE IF DOMAIN kwargs = IdFields THEN "fetch"
                     ELSE "filter"
           selected ==
               CASE branch = "cache" -> The(self.cache)
                 [] branch = "fetch" -> fetch(store, ids, only_fields)
                 [] branch = "filter" ->
                        Exhaust(new_qs.heap, new_qs.obj, store, FALSE).vals
           Exactly(n, exc) ==
               /\ exc = "" <=> n = 1
               /\ exc = "" => last'.ret = Returned(selected[1])
               /\ exc = "DoesNotExist" <=> n = 0
               /\ exc = "MultipleObjectsReturned" <=> n > 1
       IN  last'.op = "get"
               => /\ Exactly(Len(selected), last'.ret.exc)
                  /\ qs'[s] = qs[s]
                  /\ last'.calls = <<>> <=> branch = "cache"
      ]_vars

\* C9 witness: get() with criteria, called on an object whose cache holds
\* two results, has made a remote call and given the one item that matches,
\* and the cache still holds the two results.
GetCardinalityWitness ==
    /\ last.op = "get"
    /\ DOMAIN last.arg[2] = {"b"}
    /\ last.ret.exc = ""
    /\ last.calls # <<>>
    /\ ~IsNone(qs[last.self].cache)
    /\ Len(The(qs[last.self].cache)) = 2

\* C10 as stated: qs[idx] with idx negative gives what qs.reverse() gives at
\* -(idx + 1) when the object has an ordering, and raises ValueError when it
\* has none.
NegativeIndex ==
    [][LET self == qs[last'.self]
           idx == last'.arg[2]
           reversed == reverse(ordHeap, self)
           there == _getitem_idx(reversed.heap, reversed.obj, -(idx + 1),
                                 store, FALSE)
       IN  (last'.op = "getitem" /\ idx < 0)
               => IF Truthy(OrderFields(ordHeap, self))
                  THEN /\ last'.ret.exc = there.exc
                       /\ there.exc = "" => last'.ret = Returned(there.val)
                  ELSE last'.ret.exc = "ValueError"
      ]_vars

\* C10: qs[idx] with idx negative, on an object whose cache is unset, gives
\* what qs.reverse() gives at -(idx + 1) when the object has an ordering, and
\* raises ValueError without a remote call when it has none; on an object
\* whose cache is set it gives cache[idx].
NegativeIndexUncached ==
    [][LET self == qs[last'.self]
           idx == last'.arg[2]
           reversed == reverse(ordHeap, self)
           there == _getitem_idx(reversed.heap, reversed.obj, -(idx + 1),
                                 store, FALSE)
           hit == ListIndex(The(self.cache), idx)
       IN  (last'.op = "getitem" /\ idx < 0)
               => IF ~IsNone(self.cache)
                  THEN /\ last'.ret.exc = hit.exc
                       /\ hit.exc = "" => last'.ret = Returned(hit.val)
                  ELSE IF Truthy(OrderFields(ordHeap, self))
                  THEN /\ last'.ret.exc = there.exc
                       /\ there.exc = "" => last'.ret = Returned(there.val)
                  ELSE last'.ret.exc = "ValueError" /\ last'.calls = <<>>
      ]_vars

\* C10 witness: qs[-1] on an ordered object whose cache is unset has given
\* an item.
NegativeIndexWitness ==
    /\ last.op = "getitem"
    /\ last.arg[2] = -1
    /\ last.ret.exc = ""
    /\ IsNone(qs[last.self].cache)
    /\ Truthy(OrderFields(ordHeap, qs[last.self]))

\* Whether a slice has a negative start, stop or step
NegativeSlice(sl) ==
    OrZero(sl.start) < 0 \/ OrZero(sl.stop) < 0 \/ OrZero(sl.step) < 0

\* C11: qs[start:stop:step] with a negative start, stop or step, on an object
\* whose cache is unset, makes the remote calls of one complete pass over the
\* planned result stream (none when the restriction is None), leaves the
\* cache set to the whole stream and returns that slice of the whole stream;
\* with no negative part the call makes no remote call and leaves the cache
\* unset.
NegativeSliceFills ==
    [][LET s == last'.self
           self == qs[s]
           sl == last'.arg[2]
           plan == Plan(ordHeap, self, store, FALSE)
           whole == IF IsNone(self.q) THEN <<>> ELSE plan.vals
       IN  (last'.op = "getslice" /\ IsNone(self.cache))
               => IF NegativeSlice(sl)
                  THEN /\ last'.ret = Returned(ListSlice(whole, sl))
                       /\ qs'[s].cache = Some(whole)
                       /\ last'.calls =
                              IF IsNone(self.q) THEN <<>> ELSE plan.calls
                  ELSE /\ IsNone(qs'[s].cache)
                       /\ last'.calls = <<>>
      ]_vars

\* C11 witness: qs[::-1] on an object whose cache was unset has made a remote
\* call and returned the two results in reverse, and the cache holds the two
\* results.
NegativeSliceWitness ==
    /\ last.op = "getslice"
    /\ last.arg[2].step = Some(-1)
    /\ last.calls # <<>>
    /\ ~IsNone(qs[last.self].cache)
    /\ Len(The(qs[last.self].cache)) = 2
    /\ last.ret = Returned(ListSlice(The(qs[last.self].cache), last.arg[2]))
    /\ last.ret # Returned(The(qs[last.self].cache))

\* The rule of order_by's documentation: an ordering of more than one field,
\* and any ordering of a calendar view, is applied client-side
ClientSideOrdering(h, self) ==
    /\ Truthy(OrderFields(h, self))
    /\ Len(The(OrderFields(h, self))) > 1 \/ self.calendar_view

\* C12: sort placement.  The find_items call of an iteration carries no
\* ordering when the ordering of the object has more than one field or the
\* view marker is set, and it carries an ordering only when that ordering is
\* the object's, has exactly one field and the view marker is not set.
SortPlacement ==
    [][LET self == qs[last'.self]
           order == OrderFields(ordHeap, self)
       IN  (last'.op = "iter" /\ last'.calls # <<>>)
               => \A n \in DOMAIN last'.calls :
                      LET call == last'.calls[n]
                      IN  call.svc = "find_items"
                              => /\ ClientSideOrdering(ordHeap, self)
                                        => IsNone(call.kw.order_fields)
                                 /\ Truthy(call.kw.order_fields)
                                        => /\ call.kw.order_fields = order
                                           /\ Len(The(order)) = 1
                                           /\ ~self.calendar_view
      ]_vars

\* The folder item a full item of a result stream stands for
ItemOf(item) == item["changekey"] - 10

\* Whether item i comes before item j in the lexicographic order of the
\* ordering fields, each in its direction, items equal on every field being
\* in folder order
LexBefore(i, j, order) ==
    LET Key(x, k) == FieldValue(x, order[k].field_path)
    IN  \/ \E k \in DOMAIN order :
              /\ \A e \in 1..(k - 1) : Key(i, e) = Key(j, e)
              /\ IF order[k].reverse THEN Key(i, k) > Key(j, k)
                 ELSE Key(i, k) < Key(j, k)
        \/ /\ \A k \in DOMAIN order : Key(i, k) = Key(j, k)
           /\ i < j

\* C13: client-side multi-key sort.  An iteration of an object of a calendar
\* view with an ordering, whose format gives the full items of the planner,
\* has for its stream the matching items of the folder, each once, in the
\* lexicographic order of the ordering fields, each field in its own
\* direction, and items equal on every field in the order find_items gave
\* them (folder order).
ClientSortLexicographic ==
    [][LET self == qs[last'.self]
           order == The(OrderFields(ordHeap, self))
           out == gens'[Len(gens')].stream
           matching == {i \in store : Matches(The(self.q), i)}
       IN  (/\ last'.op = "iter" /\ last'.ret.exc = ""
            /\ IsNone(self.cache)
            /\ self.calendar_view /\ Truthy(OrderFields(ordHeap, self))
            /\ self.return_format = NONE
            /\ IsNone(self.only_fields) \/ has_additional_fields(self))
               => /\ Len(out) = Cardinality(matching)
                  /\ {ItemOf(out[n]) : n \in DOMAIN out} = matching
                  /\ \A m, n \in DOMAIN out :
                         m < n => LexBefore(ItemOf(out[m]), ItemOf(out[n]),
                                            order)
      ]_vars

\* C13 witness: an iteration of a calendar view ordered by two fields has
\* begun, and its stream has the second item of the folder before the first.
ClientSortWitness ==
    /\ last.op = "iter"
    /\ qs[1].calendar_view
    /\ qs[1].return_format = NONE
    /\ IsNone(qs[1].only_fields)
    /\ Truthy(OrderFields(ordHeap, qs[1]))
    /\ Len(The(OrderFields(ordHeap, qs[1]))) = 2
    /\ gens # <<>>
    /\ Len(gens[1].stream) = 2
    /\ ItemOf(gens[1].stream[1]) = 2
    /\ ItemOf(gens[1].stream[2]) = 1

\* C14: format/projection invariant.  Every object a client has built with
\* only(), values() and values_list() that has the return format values,
\* values_list or flat has a projection of at least one field, and exactly
\* one field when the format is flat; and values_list(flat=True) called with
\* a number of field names other than one has raised ValueError.
FormatProjection ==
    /\ \A s \in DOMAIN qs :
          /\ qs[s].return_format \in {VALUES, VALUES_LIST, FLAT}
                 => Truthy(qs[s].only_fields)
          /\ qs[s].return_format = FLAT
                 => Truthy(qs[s].only_fields)
                    /\ Len(The(qs[s].only_fields)) = 1
    /\ (/\ last.op = "values_list"
        /\ last.arg[2][2]
        /\ Len(last.arg[2][1]) # 1)
           => last.ret.exc = "ValueError"

\* The fields of the specification a chaining method sets
FieldsSet(op) ==
    CASE op \in {"none", "filter", "exclude"} -> {"q"}
      [] op = "only" -> {"only_fields"}
      [] op \in {"order_by", "reverse"} -> {"order_fields"}
      [] op \in {"values", "values_list"} -> {"only_fields", "return_format"}
      [] OTHER -> {}

\* C15: a chaining call that returns gives a new object whose restriction,
\* projection, ordering, return format, view marker, page_size and max_items
\* are those of the receiver, except the fields the method sets, and whose
\* cache is unset; all() sets no field.
ChainFrame ==
    [][LET self == qs[last'.self]
           new_qs == qs'[Len(qs')]
           kept == {"q", "only_fields", "return_format", "calendar_view",
                    "page_size", "max_items"} \ FieldsSet(last'.op)
       IN  (last'.op \in ChainOps /\ last'.ret.exc = "")
               => /\ Len(qs') = Len(qs) + 1
                  /\ \A f \in kept : new_qs[f] = self[f]
                  /\ "order_fields" \notin FieldsSet(last'.op)
                         => OrderFields(ordHeap', new_qs)
                                = OrderFields(ordHeap, self)
                  /\ IsNone(new_qs.cache)
      ]_vars

\* The fields a client has requested: those of only(), or every field when
\* there is no projection
RequestedFields(self) ==
    IF IsNone(self.only_fields) THEN KnownFields
    ELSE Range(The(self.only_fields))

\* The ordering fields that are not in the effective projection (the
\* requested fields without item_id and changekey)
SortOnlyFields(h, self) ==
    {f.field_path : f \in Range(The(OrderFields(h, self)))}
        \ (RequestedFields(self) \ IdFields)

\* C16: sort-only field stripping.  An iteration of an object of a calendar
\* view with an ordering, whose format gives the full items of the planner:
\* the remote call that returns the items asks for the effective projection
\* and the sort-only fields, and the object's projection is left as it was;
\* every item of the stream has each sort-only field unset and each requested
\* field at the value of the folder; and the stream is in the order of the
\* ordering fields.
SortOnlyStripped ==
    [][LET self == qs[last'.self]
           order == The(OrderFields(ordHeap, self))
           out == gens'[Len(gens')].stream
           asked == (RequestedFields(self) \ IdFields)
                        \cup SortOnlyFields(ordHeap, self)
           call == last'.calls[Len(last'.calls)]
       IN  (/\ last'.op = "iter" /\ last'.ret.exc = ""
            /\ IsNone(self.cache)
            /\ self.calendar_view /\ Truthy(OrderFields(ordHeap, self))
            /\ self.return_format = NONE
            /\ IsNone(self.only_fields) \/ has_additional_fields(self))
               => /\ IF call.svc = "fetch" THEN call.only_fields = Some(asked)
                     ELSE call.kw.additional_fields = Some(asked)
                  /\ qs'[last'.self].only_fields = self.only_fields
                  /\ \A n \in DOMAIN out :
                        /\ \A f \in SortOnlyFields(ordHeap, self) :
                               out[n][f] = Unset
                        /\ \A f \in RequestedFields(self) :
                               out[n][f] = FieldValue(ItemOf(out[n]), f)
                  /\ \A m, n \in DOMAIN out :
                         m < n => LexBefore(ItemOf(out[m]), ItemOf(out[n]),
                                            order)
      ]_vars

\* The fields a remote call asks the folder to return
FieldsAsked(call) ==
    LET fields == IF call.svc = "fetch" THEN call.only_fields
                  ELSE call.kw.additional_fields
    IN  IF IsNone(fields) THEN {} ELSE The(fields)

\* C17: two-phase decision.  In the remote calls of an iteration no
\* find_items call asks for a complex field; and when a complex field is
\* asked for, the calls are one find_items call that asks for no fields,
\* which gives (item_id, changekey) pairs, and then one fetch call of those
\* pairs.
TwoPhase ==
    [][LET calls == last'.calls
           asked == UNION {FieldsAsked(calls[n]) : n \in DOMAIN calls}
       IN  (/\ last'.op = "iter" /\ calls # <<>>
            /\ last'.ret.exc # "RemoteError")
               => /\ \A n \in DOMAIN calls :
                         calls[n].svc = "find_items"
                             => FieldsAsked(calls[n]) \cap complex_fields = {}
                  /\ asked \cap complex_fields # {}
                         => /\ Len(calls) = 2
                            /\ calls[1].svc = "find_items"
                            /\ IsNone(calls[1].kw.additional_fields)
                            /\ calls[2].svc = "fetch"
                            /\ calls[2].ids =
                                   find_items(store, calls[1].q, calls[1].kw)
      ]_vars

\* C18: cache set-once.  While the cache of an object is set, no iteration
\* of the object comes to the end of a pass over the query and assigns the
\* cache, and the cache keeps its value in every step but a delete() of the
\* object: from its creation or a delete() to the next delete() the cache is
\* assigned at most once.
CacheSetOnce ==
    [][\A s \in DOMAIN qs :
          ~IsNone(qs[s].cache)
              => /\ ~(/\ last'.op = "next"
                      /\ last'.self = s
                      /\ last'.ret.exc = "StopIteration"
                      /\ gens[last'.arg[2]].src = "query")
                 /\ qs'[s].cache # qs[s].cache
                        => last'.op = "delete" /\ last'.self = s
      ]_vars

\* Whether the formatter of an object reads the elements of the stream as
\* (item_id, changekey) pairs
FormatterTakesPairs(self) ==
    /\ Truthy(self.only_fields)
    /\ IF self.return_format = FLAT
       THEN The(self.only_fields)[1] \in IdFields
       ELSE ~has_additional_fields(self)

\* Whether the remote calls of a plan give (item_id, changekey) pairs: a
\* find_items call that asks for no fields, and no fetch
PlannerGivesPairs(calls) ==
    /\ calls[Len(calls)].svc = "find_items"
    /\ IsNone(calls[Len(calls)].kw.additional_fields)

\* C19: planner/formatter shape agreement.  In an iteration that runs the
\* query, the formatter reads the elements of the stream as (item_id,
\* changekey) pairs exactly when the planner's remote calls give pairs, and
\* no element is unpacked or read as what it is not (TypeError,
\* AttributeError).
ShapeAgreement ==
    [][LET self == qs[last'.self]
       IN  (/\ last'.op = "iter" /\ last'.calls # <<>>
            /\ last'.ret.exc # "RemoteError")
               => /\ FormatterTakesPairs(self)
                         <=> PlannerGivesPairs(last'.calls)
                  /\ last'.ret.exc \notin {"TypeError", "AttributeError"}
      ]_vars

\* C20: index and slice do not truncate later consumption.  An iteration
\* begun on an object whose cache is unset makes the remote calls, and has
\* the whole stream, of the plan of the object without paging hints: the
\* page_size and max_items an earlier qs[i] or qs[start:stop] set for itself
\* bound no later remote call, and the cache the iteration sets at its end
\* is that whole stream.
HintsDoNotPersist ==
    [][LET s == last'.self
           self == qs[s]
           plan == Plan(ordHeap,
                        [self EXCEPT !.page_size = None, !.max_items = None],
                        store, FALSE)
       IN  (/\ last'.op = "iter"
            /\ IsNone(self.cache) /\ ~IsNone(self.q)
            /\ last'.ret.exc # "RemoteError")
               => /\ last'.calls = plan.calls
                  /\ IF plan.vals = <<>> THEN qs'[s].cache = Some(<<>>)
                     ELSE gens'[Len(gens')].stream = plan.vals
      ]_vars

\* C21: no stale commit after delete.  Whenever a step of an iteration sets
\* the cache of an object, the cache is the whole result stream of the
\* object over the folder as it is then: an iteration begun before a
\* delete() of the object does not set the cache to the results it read
\* before the delete.
NoStaleCommit ==
    [][LET s == last'.self
           self == qs[s]
           whole == IF IsNone(self.q) THEN <<>>
                    ELSE Plan(ordHeap, self, store, FALSE).vals
       IN  (last'.op \in {"iter", "next"} /\ qs'[s].cache # self.cache)
               => qs'[s].cache = Some(whole)
      ]_vars

====
